---- MODULE Spec2Model ----
(***************************************************************************)
(* Model of taxi_python/uploader.py: the batch transform-and-load pipeline *)
(* of TaxiDataUploader (upload_all_files, upload_file, display_summary,    *)
(* process_parquet_in_batches) and the two category transformers           *)
(* YellowTaxiUploader.transform_batch and GreenTaxiUploader.transform_batch.*)
(*                                                                         *)
(* Number representation.  Distances and money amounts are fixed-point     *)
(* integers counted in Unit-ths (Unit = 2^17), fine enough that the        *)
(* float64 -> float32 narrowing of the code rounds some of them.  Times     *)
(* are whole seconds; trip_duration_minutes is kept in sixtieths of a      *)
(* minute (so 0.5 minute = 30).  A missing value (None / NaN / NaT) is the  *)
(* value NaN for numbers and the string "null" for the flag code.          *)
(***************************************************************************)
EXTENDS Integers, Sequences, FiniteSets, TLC

VARIABLES
    taxi_type,        \* which uploader subclass runs: "yellow" or "green"
    files,            \* parquet_files: sorted(glob.glob(pattern)), file ids
    num_row_groups,   \* file id -> number of row groups of that file
    table_exists,     \* whether the destination table can be queried
    pc,               \* position in upload_all_files
    fileIdx,          \* index in parquet_files of the file upload_file handles
    upc,              \* position in upload_file's loop
    rgIdx,            \* row groups the generator has yielded for this file
    batch,            \* <<b>> while a raw batch is held, <<>> otherwise
    transformed_batch,\* <<t>> while a transformed batch is held, <<>> otherwise
    total_processed,  \* upload_file local
    total_uploaded,   \* upload_file local
    batch_count,      \* upload_file local
    results,          \* list of the records upload_file returned
    summary,          \* <<totals>> once display_summary has printed them
    queries,          \* queries sent to the destination client, in order
    insert_calls,     \* number of client.insert_df calls issued
    table,            \* file id -> rows of that file stored in the table
    yielded,          \* file id -> rows the reader has yielded for that file
    tpc,              \* transform_batch alone: "idle", "call", "returned", "raised"
    df,               \* transform_batch alone: the input batch
    out               \* transform_batch alone: the returned batch

vars == <<taxi_type, files, num_row_groups, table_exists, pc, fileIdx, upc,
          rgIdx, batch, transformed_batch, total_processed, total_uploaded,
          batch_count,
          results, summary, queries, insert_calls, table, yielded,
          tpc, df, out>>

\* what the run is given: the uploader class, the file system, the table
env == <<taxi_type, files, num_row_groups, table_exists>>

pipelineVars == <<files, num_row_groups, table_exists, pc, fileIdx, upc,
                  rgIdx, batch, transformed_batch, total_processed, total_uploaded,
                  batch_count, results, summary, queries, insert_calls,
                  table, yielded>>

transformVars == <<tpc, df, out>>

---------------------------------------------------------------------------
(* Bounds of the model *)

MaxFiles == 2        \* file ids the glob can match
MaxRowGroups == 3    \* row groups of the matched files altogether
MaxBatchRows == 2    \* rows per row group

---------------------------------------------------------------------------
(* Numbers *)

Unit == 2^17                 \* fixed-point units per 1.0 (mile, dollar)
NaN == 0 - 2^30              \* the missing number (None, NaN, NaT)

IsNull(x) == x = NaN

\* Series.fillna(value)
FillNa(x, value) == IF IsNull(x) THEN value ELSE x

RECURSIVE Quantum(_)
\* spacing of the float32 values around magnitude a (24 significant bits)
Quantum(a) == IF a < 2^24 THEN 1 ELSE 2 * Quantum(a \div 2)

Abs(x) == IF x < 0 THEN 0 - x ELSE x

\* round x to a multiple of q, ties to the even multiple
RoundHalfEven(x, q) ==
    LET lo == (x \div q) * q
        rem == x - lo
    IN  IF 2 * rem < q THEN lo
        ELSE IF 2 * rem > q THEN lo + q
        ELSE IF (x \div q) % 2 = 0 THEN lo ELSE lo + q

\* Series.astype('float32') of a float64 value; NaN stays NaN
Float32(x) == IF IsNull(x) THEN NaN ELSE RoundHalfEven(x, Quantum(Abs(x)))

\* Series.astype('uint8') / astype('uint16') of a value that is present
Uint8(x) == x % 256
Uint16(x) == x % 65536

\* ndarray.clip(lo, hi); NaN stays NaN
Clip(x, lo, hi) ==
    IF IsNull(x) THEN NaN ELSE IF x < lo THEN lo ELSE IF x > hi THEN hi ELSE x

\* NaN-aware comparisons: any comparison with NaN is False
Gt(x, c) == ~IsNull(x) /\ x > c
Lt(x, c) == ~IsNull(x) /\ x < c
Le(x, c) == ~IsNull(x) /\ x <= c

---------------------------------------------------------------------------
(* The category transformers *)

PerMinute == 60      \* trip_duration_minutes is kept in 1/PerMinute minutes

\* (dropoff - pickup).dt.total_seconds() / 60, NaT on either side gives NaN
DurationMinutes(pickup, dropoff) ==
    IF IsNull(pickup) \/ IsNull(dropoff) THEN NaN ELSE dropoff - pickup

\* tpep_pickup_datetime.dt.hour, .dt.dayofweek (Monday = 0; day 0 of the
\* epoch is a Thursday), .dt.date
PickupHour(pickup) == (pickup \div 3600) % 24
PickupDayOfWeek(pickup) == ((pickup \div 86400) + 3) % 7
PickupDate(pickup) == pickup \div 86400

\* np.where(fare > 0, tip / fare * 100, 0.0).clip(0, 100), in whole percent
\* (the quotient is truncated downwards, which commutes with the clip)
TipPercentage(tip_amount, fare_amount) ==
    Clip(IF Gt(fare_amount, 0)
            THEN (IF IsNull(tip_amount) THEN NaN
                  ELSE (tip_amount * 100) \div fare_amount)
            ELSE 0,
         0, 100)

\* floor of (dist / Unit) / (secs / 3600), computed without overflow
MphFloor(dist, secs) ==
    LET h == Unit \div 16
        k == 3600 \div 16
    IN  ((dist \div h) * k + ((dist % h) * k) \div h) \div secs

\* np.where(duration > 0, distance / (duration / 60), 0.0).clip(0, 100),
\* in whole miles per hour
AvgSpeedMph(trip_distance, trip_duration_minutes) ==
    Clip(IF Gt(trip_duration_minutes, 0)
            THEN (IF IsNull(trip_distance) THEN NaN
                  ELSE MphFloor(trip_distance, trip_duration_minutes))
            ELSE 0,
         0, 100)

\* YellowTaxiUploader: .map({'Y': True, 'N': False}).fillna(False)
YellowFlag(code) ==
    LET mapped == IF code = "Y" THEN "True"
                  ELSE IF code = "N" THEN "False" ELSE "NaN"
    IN  IF mapped = "NaN" THEN "False" ELSE mapped

\* GreenTaxiUploader: .fillna('N').map({'Y': True, 'N': False})
GreenFlag(code) ==
    LET filled == IF code = "null" THEN "N" ELSE code
    IN  IF filled = "Y" THEN "True"
        ELSE IF filled = "N" THEN "False" ELSE "NaN"

\* An astype to an unsigned integer type raises on a column holding a
\* missing value; so does .dt.hour.astype('uint8') on a NaT pickup time.
YellowRaises(r) ==
    \/ IsNull(r.PULocationID)
    \/ IsNull(r.DOLocationID)
    \/ IsNull(r.payment_type)
    \/ IsNull(r.pickup_datetime)

GreenRaises(r) ==
    \/ IsNull(r.PULocationID)
    \/ IsNull(r.DOLocationID)
    \/ IsNull(r.pickup_datetime)

\* The columns of one yellow row after the conversions and derived columns
\* (i is the row's index label in the DataFrame)
YellowRow(r, i) ==
    LET dur == DurationMinutes(r.pickup_datetime, r.dropoff_datetime)
        dist == Float32(r.trip_distance)
        fare == Float32(r.fare_amount)
        tip == Float32(r.tip_amount)
    IN  [index |-> i,
         pickup_datetime |-> r.pickup_datetime,
         dropoff_datetime |-> r.dropoff_datetime,
         passenger_count |-> Uint8(FillNa(r.passenger_count, 1)),
         RatecodeID |-> Uint8(FillNa(r.RatecodeID, 1)),
         store_and_fwd_flag |-> YellowFlag(r.store_and_fwd_flag),
         congestion_surcharge |-> Float32(FillNa(r.congestion_surcharge, 0)),
         Airport_fee |-> Float32(FillNa(r.Airport_fee, 0)),
         PULocationID |-> Uint16(r.PULocationID),
         DOLocationID |-> Uint16(r.DOLocationID),
         payment_type |-> Uint8(r.payment_type),
         trip_distance |-> dist,
         fare_amount |-> fare,
         extra |-> Float32(r.extra),
         mta_tax |-> Float32(r.mta_tax),
         tip_amount |-> tip,
         tolls_amount |-> Float32(r.tolls_amount),
         improvement_surcharge |-> Float32(r.improvement_surcharge),
         total_amount |-> Float32(r.total_amount),
         trip_duration_minutes |-> dur,
         pickup_hour |-> Uint8(PickupHour(r.pickup_datetime)),
         pickup_day_of_week |-> Uint8(PickupDayOfWeek(r.pickup_datetime)),
         pickup_date |-> PickupDate(r.pickup_datetime),
         tip_percentage |-> TipPercentage(tip, fare),
         avg_speed_mph |-> AvgSpeedMph(dist, dur)]

\* The columns of one green row; ehail_fee is dropped, there is no
\* Airport_fee, and payment_type has a default
GreenRow(r, i) ==
    LET dur == DurationMinutes(r.pickup_datetime, r.dropoff_datetime)
        dist == Float32(r.trip_distance)
        fare == Float32(r.fare_amount)
        tip == Float32(r.tip_amount)
    IN  [index |-> i,
         pickup_datetime |-> r.pickup_datetime,
         dropoff_datetime |-> r.dropoff_datetime,
         passenger_count |-> Uint8(FillNa(r.passenger_count, 1)),
         RatecodeID |-> Uint8(FillNa(r.RatecodeID, 1)),
         store_and_fwd_flag |-> GreenFlag(r.store_and_fwd_flag),
         congestion_surcharge |-> Float32(FillNa(r.congestion_surcharge, 0)),
         PULocationID |-> Uint16(r.PULocationID),
         DOLocationID |-> Uint16(r.DOLocationID),
         payment_type |-> Uint8(FillNa(r.payment_type, 0)),
         trip_distance |-> dist,
         fare_amount |-> fare,
         extra |-> Float32(r.extra),
         mta_tax |-> Float32(r.mta_tax),
         tip_amount |-> tip,
         tolls_amount |-> Float32(r.tolls_amount),
         improvement_surcharge |-> Float32(r.improvement_surcharge),
         total_amount |-> Float32(r.total_amount),
         trip_duration_minutes |-> dur,
         pickup_hour |-> Uint8(PickupHour(r.pickup_datetime)),
         pickup_day_of_week |-> Uint8(PickupDayOfWeek(r.pickup_datetime)),
         pickup_date |-> PickupDate(r.pickup_datetime),
         tip_percentage |-> TipPercentage(tip, fare),
         avg_speed_mph |-> AvgSpeedMph(dist, dur)]

\* Variant of YellowQualityFilter with the upper duration bound exclusive
YellowQualityFilterOpen(r) ==
    /\ Gt(r.trip_distance, 0)
    /\ Lt(r.trip_distance, 200 * Unit)
    /\ Gt(2 * r.trip_duration_minutes, PerMinute)
    /\ Lt(r.trip_duration_minutes, 480 * PerMinute)
    /\ Gt(r.fare_amount, 0)
    /\ Lt(r.fare_amount, 1000 * Unit)
    /\ Gt(r.total_amount, 0)
    /\ Lt(r.total_amount, 1000 * Unit)

\* Data quality filters of YellowTaxiUploader.transform_batch
YellowQualityFilter(r) ==
    /\ Gt(r.trip_distance, 0)
    /\ Lt(r.trip_distance, 200 * Unit)
    /\ Gt(2 * r.trip_duration_minutes, PerMinute)
    /\ Le(r.trip_duration_minutes, 480 * PerMinute)
    /\ Gt(r.fare_amount, 0)
    /\ Lt(r.fare_amount, 1000 * Unit)
    /\ Gt(r.total_amount, 0)
    /\ Lt(r.total_amount, 1000 * Unit)

\* Data quality filters of GreenTaxiUploader.transform_batch
GreenQualityFilter(r) ==
    /\ Gt(r.trip_distance, 0)
    /\ Lt(r.trip_distance, 200 * Unit)
    /\ Gt(2 * r.trip_duration_minutes, PerMinute)
    /\ Le(r.trip_duration_minutes, 480 * PerMinute)
    /\ Gt(r.fare_amount, 0)
    /\ Lt(r.fare_amount, 1000 * Unit)
    /\ Gt(r.total_amount, 0)
    /\ Lt(r.total_amount, 1000 * Unit)

\* transform_batch returns [raised |-> TRUE] when a conversion raises, and
\* [raised |-> FALSE, rows |-> the filtered DataFrame] otherwise
YellowTransformBatch(b) ==
    IF \E i \in 1..Len(b) : YellowRaises(b[i])
    THEN [raised |-> TRUE, rows |-> <<>>]
    ELSE [raised |-> FALSE,
          rows |-> SelectSeq([i \in 1..Len(b) |-> YellowRow(b[i], i)],
                             YellowQualityFilter)]

GreenTransformBatch(b) ==
    IF \E i \in 1..Len(b) : GreenRaises(b[i])
    THEN [raised |-> TRUE, rows |-> <<>>]
    ELSE [raised |-> FALSE,
          rows |-> SelectSeq([i \in 1..Len(b) |-> GreenRow(b[i], i)],
                             GreenQualityFilter)]

\* self.transform_batch(batch): dispatch on the uploader's class
transform_batch(type, b) ==
    IF type = "yellow" THEN YellowTransformBatch(b) ELSE GreenTransformBatch(b)

---------------------------------------------------------------------------
(* Source data: the rows a row group of a parquet file may hold *)

Pickup == 9 * 3600   \* pickup time of the sample trips, seconds

\* A clean yellow trip: 5 miles in 10 minutes, fare 20, tip 3, total 25
YellowBaseRow ==
    [pickup_datetime |-> Pickup, dropoff_datetime |-> Pickup + 600,
     passenger_count |-> 2, trip_distance |-> 5 * Unit, RatecodeID |-> 2,
     store_and_fwd_flag |-> "N", PULocationID |-> 100, DOLocationID |-> 200,
     payment_type |-> 1, fare_amount |-> 20 * Unit, extra |-> Unit,
     mta_tax |-> Unit \div 2, tip_amount |-> 3 * Unit, tolls_amount |-> 0,
     improvement_surcharge |-> Unit \div 4, total_amount |-> 25 * Unit,
     congestion_surcharge |-> 0, Airport_fee |-> 0]

\* The same trip in a green file: ehail_fee instead of Airport_fee
GreenBaseRow ==
    [pickup_datetime |-> Pickup, dropoff_datetime |-> Pickup + 600,
     passenger_count |-> 2, trip_distance |-> 5 * Unit, RatecodeID |-> 2,
     store_and_fwd_flag |-> "N", PULocationID |-> 100, DOLocationID |-> 200,
     payment_type |-> 1, fare_amount |-> 20 * Unit, extra |-> Unit,
     mta_tax |-> Unit \div 2, tip_amount |-> 3 * Unit, tolls_amount |-> 0,
     improvement_surcharge |-> Unit \div 4, total_amount |-> 25 * Unit,
     congestion_surcharge |-> 0, ehail_fee |-> NaN]

BaseRow(type) == IF type = "yellow" THEN YellowBaseRow ELSE GreenBaseRow

\* Values a numeric column may hold instead of the base row's value
NumericCases ==
    [trip_distance |-> {NaN, 0 - Unit, 0, 1, 200 * Unit - 2, 200 * Unit - 1,
                        200 * Unit},
     dropoff_datetime |-> {NaN, Pickup - 60, Pickup, Pickup + 30, Pickup + 31,
                           Pickup + 28800, Pickup + 28801, Pickup + 36000},
     fare_amount |-> {NaN, 0, 1, 1000 * Unit - 8, 1000 * Unit - 4,
                      1000 * Unit},
     total_amount |-> {NaN, 0, 1000 * Unit - 8, 1000 * Unit},
     tip_amount |-> {NaN, 0 - 2 * Unit, 0, 30 * Unit},
     passenger_count |-> {NaN, 0},
     RatecodeID |-> {NaN},
     payment_type |-> {NaN},
     PULocationID |-> {NaN},
     DOLocationID |-> {NaN},
     pickup_datetime |-> {NaN},
     extra |-> {NaN},
     mta_tax |-> {NaN},
     tolls_amount |-> {NaN},
     improvement_surcharge |-> {NaN},
     congestion_surcharge |-> {NaN},
     Airport_fee |-> {NaN}]

\* Flag codes: missing, 'Y', and a code that is neither 'Y' nor 'N'
FlagCases == {"null", "Y", "X"}

\* The rows of a category: the base row with one column changed
SourceRows(type) ==
    LET base == BaseRow(type)
    IN  {base}
        \cup {[base EXCEPT ![c] = v] :
                 <<c, v>> \in UNION {{<<c, v>> : v \in NumericCases[c]} :
                                     c \in DOMAIN NumericCases \cap DOMAIN base}}
        \cup {[base EXCEPT !.store_and_fwd_flag = f] : f \in FlagCases}

\* Batches of at most n rows over a set of rows
BatchesOver(rows, n) == UNION {[1..k -> rows] : k \in 0..n}

---------------------------------------------------------------------------
(* transform_batch alone, applied to one input batch *)

Idle ==
    /\ files = <<>>
    /\ num_row_groups = <<>>
    /\ table_exists = TRUE
    /\ pc = "idle"
    /\ fileIdx = 0
    /\ upc = "idle"
    /\ rgIdx = 0
    /\ batch = <<>>
    /\ transformed_batch = <<>>
    /\ total_processed = 0
    /\ total_uploaded = 0
    /\ batch_count = 0
    /\ results = <<>>
    /\ summary = <<>>
    /\ queries = <<"SELECT 1">>
    /\ insert_calls = 0
    /\ table = <<>>
    /\ yielded = <<>>

InitTransform ==
    /\ Idle
    /\ taxi_type \in {"yellow", "green"}
    /\ df \in BatchesOver(SourceRows(taxi_type), MaxBatchRows)
    /\ tpc = "call"
    /\ out = <<>>

\* transform_batch(df) returns the filtered DataFrame
TransformReturns ==
    /\ tpc = "call"
    /\ ~transform_batch(taxi_type, df).raised
    /\ out' = transform_batch(taxi_type, df).rows
    /\ tpc' = "returned"
    /\ UNCHANGED <<taxi_type, df, pipelineVars>>

\* transform_batch(df) raises
TransformRaises ==
    /\ tpc = "call"
    /\ transform_batch(taxi_type, df).raised
    /\ tpc' = "raised"
    /\ UNCHANGED <<taxi_type, df, out, pipelineVars>>

NextTransform == TransformReturns \/ TransformRaises

SpecTransform == InitTransform /\ [][NextTransform]_vars

---------------------------------------------------------------------------
(* The upload pipeline: upload_all_files, upload_file, display_summary *)

RECURSIVE SumOver(_, _)
\* sum of f[x] over the x in S
SumOver(f, S) ==
    IF S = {} THEN 0
    ELSE LET x == CHOOSE y \in S : TRUE
         IN  f[x] + SumOver(f, S \ {x})

RECURSIVE sorted(_)
\* sorted(glob.glob(pattern)): the matched files in ascending order
sorted(S) ==
    IF S = {} THEN <<>>
    ELSE LET m == CHOOSE x \in S : \A y \in S : x <= y
         IN  <<m>> \o sorted(S \ {m})

\* Row groups the files of the run hold, built from a clean trip, a trip
\* the quality filter rejects, and a trip without payment type
SourceBatches(type) ==
    LET clean == BaseRow(type)
        rejected == [BaseRow(type) EXCEPT !.trip_distance = 0]
        unpaid == [BaseRow(type) EXCEPT !.payment_type = NaN]
    IN  {<<>>, <<clean>>, <<rejected>>, <<clean, clean>>,
         <<clean, rejected>>, <<unpaid>>}

\* The record upload_file returns when the loop ends (times and sizes are
\* left out)
SuccessRecord(file_name, processed, uploaded, count) ==
    [file |-> file_name,
     rows_processed |-> processed,
     rows_uploaded |-> uploaded,
     rows_filtered |-> processed - uploaded,
     batches_processed |-> count]

\* Variant of ErrorRecord that forgets the partial count
ErrorRecordZero(file_name, e, uploaded) ==
    [file |-> file_name,
     error |-> e,
     rows_uploaded |-> 0]

\* The record upload_file returns from its except branch
ErrorRecord(file_name, e, uploaded) ==
    [file |-> file_name,
     error |-> e,
     rows_uploaded |-> uploaded]

HasError(r) == "error" \in DOMAIN r

RECURSIVE SumRowsUploaded(_)
\* sum(r['rows_uploaded'] for r in results if 'error' not in r)
SumRowsUploaded(rs) ==
    IF rs = <<>> THEN 0
    ELSE (IF HasError(Head(rs)) THEN 0 ELSE Head(rs).rows_uploaded)
         + SumRowsUploaded(Tail(rs))

RECURSIVE SumRowsProcessed(_)
\* sum(r['rows_processed'] for r in results if 'error' not in r)
SumRowsProcessed(rs) ==
    IF rs = <<>> THEN 0
    ELSE (IF HasError(Head(rs)) THEN 0 ELSE Head(rs).rows_processed)
         + SumRowsProcessed(Tail(rs))

\* Variant of display_summary whose uploaded total takes the records of
\* failed files too
display_summary_all(rs) ==
    [total_rows_uploaded |->
         SumOver([i \in 1..Len(rs) |-> rs[i].rows_uploaded], 1..Len(rs)),
     total_rows_processed |-> SumRowsProcessed(rs),
     total_rows_filtered |-> SumRowsProcessed(rs) - SumRowsUploaded(rs),
     successful_files |-> Cardinality({i \in 1..Len(rs) : ~HasError(rs[i])}),
     failed_files |-> Cardinality({i \in 1..Len(rs) : HasError(rs[i])})]

\* The totals display_summary prints
display_summary(rs) ==
    [total_rows_uploaded |-> SumRowsUploaded(rs),
     total_rows_processed |-> SumRowsProcessed(rs),
     total_rows_filtered |-> SumRowsProcessed(rs) - SumRowsUploaded(rs),
     successful_files |-> Cardinality({i \in 1..Len(rs) : ~HasError(rs[i])}),
     failed_files |-> Cardinality({i \in 1..Len(rs) : HasError(rs[i])})]

\* State after construction of the uploader: the connection check
\* "SELECT 1" has been sent, and the file system holds the files the glob
\* will match
Init ==
    /\ taxi_type \in {"yellow", "green"}
    /\ \E S \in SUBSET (1..MaxFiles) :
          /\ files = sorted(S)
          /\ num_row_groups \in {n \in [S -> 0..MaxRowGroups] :
                                     SumOver(n, S) <= MaxRowGroups}
          /\ table = [f \in S |-> 0]
          /\ yielded = [f \in S |-> 0]
    /\ table_exists \in BOOLEAN
    /\ pc = "start"
    /\ fileIdx = 0
    /\ upc = "idle"
    /\ rgIdx = 0
    /\ batch = <<>>
    /\ transformed_batch = <<>>
    /\ total_processed = 0
    /\ total_uploaded = 0
    /\ batch_count = 0
    /\ results = <<>>
    /\ summary = <<>>
    /\ queries = <<"SELECT 1">>
    /\ insert_calls = 0
    /\ tpc = "idle"
    /\ df = <<>>
    /\ out = <<>>

file == files[fileIdx]

\* Variant of NoFilesFound without the return: the table query follows
NoFilesFoundNoReturn ==
    /\ pc = "start"
    /\ files = <<>>
    /\ queries' = Append(queries, "SELECT 1 FROM table")
    /\ pc' = "summary"
    /\ UNCHANGED <<env, fileIdx, upc, rgIdx, batch, transformed_batch,
                   total_processed, total_uploaded, batch_count, results,
                   summary, insert_calls, table, yielded, transformVars>>

\* upload_all_files: no file matches the pattern
NoFilesFound ==
    /\ pc = "start"
    /\ files = <<>>
    /\ pc' = "no_files"
    /\ UNCHANGED <<env, fileIdx, upc, rgIdx, batch, transformed_batch,
                   total_processed, total_uploaded, batch_count, results,
                   summary, queries, insert_calls, table, yielded,
                   transformVars>>

\* upload_all_files: the table query succeeds; upload_file starts on the
\* first file
VerifyTableOk ==
    /\ pc = "start"
    /\ files # <<>>
    /\ table_exists
    /\ queries' = Append(queries, "SELECT 1 FROM table")
    /\ pc' = "upload"
    /\ fileIdx' = 1
    /\ upc' = "open"
    /\ UNCHANGED <<env, rgIdx, batch, transformed_batch, total_processed,
                   total_uploaded, batch_count, results, summary,
                   insert_calls, table, yielded, transformVars>>

\* Variant of VerifyTableFails without the return: the files are uploaded
VerifyTableFailsNoReturn ==
    /\ pc = "start"
    /\ files # <<>>
    /\ ~table_exists
    /\ queries' = Append(queries, "SELECT 1 FROM table")
    /\ pc' = "upload"
    /\ fileIdx' = 1
    /\ upc' = "open"
    /\ UNCHANGED <<env, rgIdx, batch, transformed_batch, total_processed,
                   total_uploaded, batch_count, results, summary,
                   insert_calls, table, yielded, transformVars>>

\* upload_all_files: the table query raises; the method returns
VerifyTableFails ==
    /\ pc = "start"
    /\ files # <<>>
    /\ ~table_exists
    /\ queries' = Append(queries, "SELECT 1 FROM table")
    /\ pc' = "table_missing"
    /\ UNCHANGED <<env, fileIdx, upc, rgIdx, batch, transformed_batch,
                   total_processed, total_uploaded, batch_count, results,
                   summary, insert_calls, table, yielded, transformVars>>

\* upload_file returns rec; the list comprehension of upload_all_files
\* calls upload_file on the next file, or ends
Return(rec) ==
    /\ results' = Append(results, rec)
    /\ batch' = <<>>
    /\ transformed_batch' = <<>>
    /\ rgIdx' = 0
    /\ total_processed' = 0
    /\ total_uploaded' = 0
    /\ batch_count' = 0
    /\ IF fileIdx < Len(files)
          THEN /\ fileIdx' = fileIdx + 1
               /\ upc' = "open"
               /\ pc' = pc
          ELSE /\ fileIdx' = fileIdx
               /\ upc' = "idle"
               /\ pc' = "summary"

\* The except branch of upload_file
Except(e) == Return(ErrorRecord(file, e, total_uploaded))

\* upload_file gets the file's size; the generator opens the file and reads
\* the number of its row groups from the metadata
OpenFile ==
    /\ pc = "upload"
    /\ upc = "open"
    /\ upc' = "read"
    /\ UNCHANGED <<env, pc, fileIdx, rgIdx, batch, transformed_batch,
                   total_processed, total_uploaded, batch_count, results,
                   summary, queries, insert_calls, table, yielded,
                   transformVars>>

\* os.path.getsize or pq.ParquetFile raises
OpenFails ==
    /\ pc = "upload"
    /\ upc = "open"
    /\ Except("open")
    /\ UNCHANGED <<env, summary, queries, insert_calls, table, yielded,
                   transformVars>>

\* Variant of ReadBatch that counts the batch, not its rows, as processed
ReadBatchCountsBatches ==
    /\ pc = "upload"
    /\ upc = "read"
    /\ rgIdx < num_row_groups[file]
    /\ \E b \in SourceBatches(taxi_type) :
          /\ batch' = <<b>>
          /\ total_processed' = total_processed + 1
          /\ yielded' = [yielded EXCEPT ![file] = @ + Len(b)]
    /\ rgIdx' = rgIdx + 1
    /\ upc' = "transform"
    /\ UNCHANGED <<env, pc, fileIdx, transformed_batch, total_uploaded,
                   batch_count, results, summary, queries, insert_calls,
                   table, transformVars>>

\* Variant of ReadBatch that also reads ahead while a transformed batch
\* waits for its insertion
ReadBatchAhead ==
    /\ pc = "upload"
    /\ upc \in {"read", "insert"}
    /\ rgIdx < num_row_groups[file]
    /\ \E b \in SourceBatches(taxi_type) :
          /\ batch' = <<b>>
          /\ total_processed' = total_processed + Len(b)
          /\ yielded' = [yielded EXCEPT ![file] = @ + Len(b)]
    /\ rgIdx' = rgIdx + 1
    /\ upc' = "transform"
    /\ UNCHANGED <<env, pc, fileIdx, transformed_batch, total_uploaded,
                   batch_count, results, summary, queries, insert_calls,
                   table, transformVars>>

\* process_parquet_in_batches yields the next row group
ReadBatch ==
    /\ pc = "upload"
    /\ upc = "read"
    /\ rgIdx < num_row_groups[file]
    /\ \E b \in SourceBatches(taxi_type) :
          /\ batch' = <<b>>
          /\ total_processed' = total_processed + Len(b)
          /\ yielded' = [yielded EXCEPT ![file] = @ + Len(b)]
    /\ rgIdx' = rgIdx + 1
    /\ upc' = "transform"
    /\ UNCHANGED <<env, pc, fileIdx, transformed_batch, total_uploaded,
                   batch_count, results, summary, queries, insert_calls,
                   table, transformVars>>

\* read_row_group raises
ReadFails ==
    /\ pc = "upload"
    /\ upc = "read"
    /\ rgIdx < num_row_groups[file]
    /\ Except("read")
    /\ UNCHANGED <<env, summary, queries, insert_calls, table, yielded,
                   transformVars>>

\* The generator is exhausted: upload_file returns its metrics
EndOfFile ==
    /\ pc = "upload"
    /\ upc = "read"
    /\ rgIdx = num_row_groups[file]
    /\ Return(SuccessRecord(file, total_processed, total_uploaded, batch_count))
    /\ UNCHANGED <<env, summary, queries, insert_calls, table, yielded,
                   transformVars>>

\* transform_batch(batch) returns
TransformOk ==
    /\ pc = "upload"
    /\ upc = "transform"
    /\ ~transform_batch(taxi_type, batch[1]).raised
    /\ transformed_batch' = <<transform_batch(taxi_type, batch[1]).rows>>
    /\ upc' = "insert"
    /\ UNCHANGED <<env, pc, fileIdx, rgIdx, batch, total_processed,
                   total_uploaded, batch_count, results, summary, queries,
                   insert_calls, table, yielded, transformVars>>

\* transform_batch(batch) raises
TransformFails ==
    /\ pc = "upload"
    /\ upc = "transform"
    /\ transform_batch(taxi_type, batch[1]).raised
    /\ Except("transform")
    /\ UNCHANGED <<env, summary, queries, insert_calls, table, yielded,
                   transformVars>>

\* client.insert_df stores the transformed batch; the batch is released
InsertBatch ==
    /\ pc = "upload"
    /\ upc = "insert"
    /\ Len(transformed_batch[1]) > 0
    /\ insert_calls' = insert_calls + 1
    /\ table' = [table EXCEPT ![file] = @ + Len(transformed_batch[1])]
    /\ total_uploaded' = total_uploaded + Len(transformed_batch[1])
    /\ batch_count' = batch_count + 1
    /\ batch' = <<>>
    /\ transformed_batch' = <<>>
    /\ upc' = "read"
    /\ UNCHANGED <<env, pc, fileIdx, rgIdx, total_processed, results,
                   summary, queries, yielded, transformVars>>

\* Variant of InsertFails that has counted the batch before inserting it
InsertFailsCountsBatch ==
    /\ pc = "upload"
    /\ upc = "insert"
    /\ Len(transformed_batch[1]) > 0
    /\ insert_calls' = insert_calls + 1
    /\ Return(ErrorRecord(file, "insert",
                          total_uploaded + Len(transformed_batch[1])))
    /\ UNCHANGED <<env, summary, queries, table, yielded, transformVars>>

\* client.insert_df raises
InsertFails ==
    /\ pc = "upload"
    /\ upc = "insert"
    /\ Len(transformed_batch[1]) > 0
    /\ insert_calls' = insert_calls + 1
    /\ Except("insert")
    /\ UNCHANGED <<env, summary, queries, table, yielded, transformVars>>

\* No row of the batch passed the filter: nothing is inserted
SkipEmptyBatch ==
    /\ pc = "upload"
    /\ upc = "insert"
    /\ Len(transformed_batch[1]) = 0
    /\ batch' = <<>>
    /\ transformed_batch' = <<>>
    /\ upc' = "read"
    /\ UNCHANGED <<env, pc, fileIdx, rgIdx, total_processed, total_uploaded,
                   batch_count, results, summary, queries, insert_calls,
                   table, yielded, transformVars>>

\* display_summary: the totals, then the two verification queries (the
\* second is not sent when the first raises; a failure is only printed)
DisplaySummary ==
    /\ pc = "summary"
    /\ summary' = <<display_summary(results)>>
    /\ \E verified \in {"ok", "count_failed", "stats_failed"} :
          queries' = IF verified = "count_failed"
                        THEN Append(queries, "SELECT COUNT(*)")
                        ELSE queries \o <<"SELECT COUNT(*)", "SELECT MIN, MAX">>
    /\ pc' = "done"
    /\ UNCHANGED <<env, fileIdx, upc, rgIdx, batch, transformed_batch,
                   total_processed, total_uploaded, batch_count, results,
                   insert_calls, table, yielded, transformVars>>

Next ==
    \/ NoFilesFound
    \/ VerifyTableOk
    \/ VerifyTableFails
    \/ OpenFile
    \/ OpenFails
    \/ ReadBatch
    \/ ReadFails
    \/ EndOfFile
    \/ TransformOk
    \/ TransformFails
    \/ InsertBatch
    \/ InsertFails
    \/ SkipEmptyBatch
    \/ DisplaySummary

Spec == Init /\ [][Next]_vars

---------------------------------------------------------------------------
(* Properties of the upload pipeline *)

\* the file whose record is results[i]
FileOf(i) == files[i]

\* C1 (state part): an error record reports exactly the rows of its file
\* that were inserted before the failure, results holds one record per
\* finished file in the order of the list, and once the loop over the files
\* has ended every file of the list has its record.
C1_Records ==
    /\ \A i \in 1..Len(results) :
          /\ results[i].file = FileOf(i)
          /\ HasError(results[i]) => results[i].rows_uploaded = table[FileOf(i)]
    /\ pc = "upload" => Len(results) = fileIdx - 1
    /\ pc \in {"summary", "done"} => Len(results) = Len(files)
    /\ upc = "open" =>
          /\ total_processed = 0 /\ total_uploaded = 0 /\ batch_count = 0
          /\ rgIdx = 0 /\ yielded[file] = 0 /\ table[file] = 0

\* C1 (step part): once a file has its record, no further batch of it is
\* read or inserted, and its record stays as it is.
C1_Finished ==
    \A i \in 1..Len(results) :
       /\ yielded'[FileOf(i)] = yielded[FileOf(i)]
       /\ table'[FileOf(i)] = table[FileOf(i)]
       /\ results'[i] = results[i]

\* C1: failure is file-scoped.  A read, transform or insert failure on a
\* batch of one file gives that file an error record whose rows_uploaded is
\* the number of rows inserted before the failure, no later batch of the
\* file is read or inserted, and every other file of the list still gets
\* its own record from a fresh start.
C1_FileScopedFailure == []C1_Records /\ [][C1_Finished]_vars

\* C1 witness: the first of two files failed in an insertion after rows of
\* an earlier batch were stored, and the second file was uploaded.
C1_Witness ==
    /\ pc = "done"
    /\ Len(results) = 2
    /\ HasError(results[1])
    /\ results[1].error = "insert"
    /\ results[1].rows_uploaded > 0
    /\ ~HasError(results[2])
    /\ results[2].rows_uploaded > 0

\* C2: if the table query fails the run ends with no file processed:
\* upload_file is never called, nothing is read or inserted, there is no
\* summary and no verification query, however many files matched.
C2_TableMissingAborts ==
    (~table_exists) =>
        /\ pc \in {"start", "no_files", "table_missing"}
        /\ fileIdx = 0
        /\ upc = "idle"
        /\ results = <<>>
        /\ summary = <<>>
        /\ insert_calls = 0
        /\ \A f \in DOMAIN table : table[f] = 0 /\ yielded[f] = 0
        /\ pc = "table_missing" =>
              queries = <<"SELECT 1", "SELECT 1 FROM table">>

\* C2 witness: two files matched and the table query failed.
C2_Witness == pc = "table_missing" /\ Len(files) = 2

\* C3: with no file matched, the only destination call of the run is the
\* connection check of the constructor.
C3_NoFilesNoCalls ==
    files = <<>> =>
        /\ pc \in {"start", "no_files"}
        /\ queries = <<"SELECT 1">>
        /\ insert_calls = 0
        /\ results = <<>>
        /\ summary = <<>>

\* C3 witness: the run over an empty match has returned.
C3_Witness == pc = "no_files" /\ files = <<>>

\* rows stored in the table by the files with a record satisfying Keep
StoredBy(Keep(_)) ==
    SumOver([i \in 1..Len(results) |-> table[FileOf(i)]],
            {i \in 1..Len(results) : Keep(results[i])})

\* rows read from the files with a record satisfying Keep
ReadFrom(Keep(_)) ==
    SumOver([i \in 1..Len(results) |-> yielded[FileOf(i)]],
            {i \in 1..Len(results) : Keep(results[i])})

AnyRecord(r) == TRUE
NoError(r) == ~HasError(r)

\* C4 as claimed: the totals of the summary are the sums over all files of
\* the run, the rows a failed file read and inserted before it failed
\* included.
C4_TotalsIncludeFailedFiles ==
    pc = "done" =>
        /\ summary[1].total_rows_uploaded = StoredBy(AnyRecord)
        /\ summary[1].total_rows_processed = ReadFrom(AnyRecord)

\* C4 amended: the totals of the summary are the sums over the files that
\* did not fail; what a failed file read and inserted is left out.
C4_TotalsOfSuccessfulFiles ==
    pc = "done" =>
        /\ summary[1].total_rows_uploaded = StoredBy(NoError)
        /\ summary[1].total_rows_processed = ReadFrom(NoError)
        /\ summary[1].total_rows_filtered = ReadFrom(NoError) - StoredBy(NoError)

\* C4 witness: a run is summarised in which one file failed after it had
\* inserted rows and another file was uploaded.
C4_Witness ==
    /\ pc = "done"
    /\ \E i, j \in 1..Len(results) :
          /\ HasError(results[i]) /\ results[i].rows_uploaded > 0
          /\ ~HasError(results[j]) /\ results[j].rows_uploaded > 0

\* C5 as claimed: every record is a success record or an error record that
\* carries the description, the rows processed so far and the rows uploaded
\* so far.
C5_ErrorRecordHasProcessed ==
    \A i \in 1..Len(results) :
       HasError(results[i]) =>
          /\ "rows_uploaded" \in DOMAIN results[i]
          /\ "rows_processed" \in DOMAIN results[i]

\* C5 amended: every call of upload_file ends in exactly one record: a
\* success record with the counts of the file (possibly no uploaded row), or
\* an error record with the description and the rows uploaded so far, and
\* without the rows processed so far.
C5_OneTerminalRecord ==
    /\ pc = "upload" => Len(results) = fileIdx - 1
    /\ pc \in {"summary", "done"} => Len(results) = fileIdx
    /\ \A i \in 1..Len(results) :
          IF HasError(results[i])
             THEN /\ DOMAIN results[i] = {"file", "error", "rows_uploaded"}
                  /\ results[i].error \in {"open", "read", "transform", "insert"}
                  /\ results[i].rows_uploaded = table[FileOf(i)]
             ELSE /\ DOMAIN results[i] =
                        {"file", "rows_processed", "rows_uploaded",
                         "rows_filtered", "batches_processed"}
                  /\ results[i].rows_processed = yielded[FileOf(i)]
                  /\ results[i].rows_uploaded = table[FileOf(i)]
                  /\ results[i].rows_filtered =
                        yielded[FileOf(i)] - table[FileOf(i)]

\* C5 witness: one file ended in an error record after rows of it were
\* read and uploaded, another in a success record with no uploaded row.
C5_Witness ==
    \E i, j \in 1..Len(results) :
       /\ HasError(results[i])
       /\ results[i].rows_uploaded > 0
       /\ yielded[FileOf(i)] > results[i].rows_uploaded
       /\ ~HasError(results[j])
       /\ results[j].rows_processed > 0
       /\ results[j].rows_uploaded = 0

\* C6 (step part): a row group is read only while no batch is held; a held
\* transformed batch is let go only by its insertion when it has rows, and
\* without any insert call when it has none, unless the file fails.
C6_Step ==
    /\ rgIdx' = rgIdx + 1 =>
          /\ batch = <<>>
          /\ transformed_batch = <<>>
          /\ table[file] = total_uploaded
    /\ (transformed_batch # <<>> /\ transformed_batch' = <<>>
           /\ results' = results) =>
          IF Len(transformed_batch[1]) > 0
             THEN /\ insert_calls' = insert_calls + 1
                  /\ table'[file] = table[file] + Len(transformed_batch[1])
             ELSE /\ insert_calls' = insert_calls
                  /\ table' = table
    /\ insert_calls' # insert_calls =>
          /\ transformed_batch # <<>>
          /\ Len(transformed_batch[1]) > 0

\* C6: within a file the batches are handled one at a time: the accepted
\* rows of a batch are in the table before the next batch is read, and no
\* insert call is made for a batch without accepted rows.
C6_OneBatchAtATime == [][C6_Step]_vars

\* C6 witness: the second row group of a file is held after the rows of
\* the first were inserted.
C6_Witness ==
    /\ pc = "upload"
    /\ upc = "transform"
    /\ rgIdx = 2
    /\ insert_calls = 1
    /\ table[file] > 0

---------------------------------------------------------------------------
(* Properties of the category transformers *)

\* the rows of the input batch after the conversions, before the filter
Converted(type, b) ==
    [i \in 1..Len(b) |->
        IF type = "yellow" THEN YellowRow(b[i], i) ELSE GreenRow(b[i], i)]

\* the four ranges a trip has to lie in: 0 < distance < 200 miles,
\* 0.5 < duration <= 480 minutes, 0 < fare < 1000, 0 < total < 1000
InRanges(r) ==
    /\ ~IsNull(r.trip_distance)
    /\ 0 < r.trip_distance /\ r.trip_distance < 200 * Unit
    /\ ~IsNull(r.trip_duration_minutes)
    /\ PerMinute < 2 * r.trip_duration_minutes
    /\ r.trip_duration_minutes <= 480 * PerMinute
    /\ ~IsNull(r.fare_amount)
    /\ 0 < r.fare_amount /\ r.fare_amount < 1000 * Unit
    /\ ~IsNull(r.total_amount)
    /\ 0 < r.total_amount /\ r.total_amount < 1000 * Unit

\* C7: transform_batch returns exactly the rows within the four ranges, in
\* their original order; so it returns no more rows than it was given, and
\* the rows it drops are as many as the rows outside some range.
C7_QualityFilterExact ==
    tpc = "returned" =>
        LET rows == Converted(taxi_type, df)
            kept == {i \in 1..Len(df) : InRanges(rows[i])}
        IN  /\ Len(out) = Cardinality(kept)
            /\ \A k \in 1..Len(out) :
                  /\ out[k].index \in kept
                  /\ out[k] = rows[out[k].index]
                  /\ k > 1 => out[k - 1].index < out[k].index
            /\ Len(out) <= Len(df)
            /\ Len(df) - Len(out) = Cardinality((1..Len(df)) \ kept)

\* C7 witness: of two rows the first has distance 0 and the second is
\* clean; the second alone is returned.
C7_Witness ==
    /\ tpc = "returned"
    /\ Len(df) = 2
    /\ df[1].trip_distance = 0
    /\ Len(out) = 1
    /\ out[1].index = 2

\* C8: in the rows returned by either transformer a missing passenger_count
\* has become 1 and a store_and_fwd_flag that is missing or neither 'Y' nor
\* 'N' has become false.
C8_DefaultSubstitution ==
    tpc = "returned" =>
        \A k \in 1..Len(out) :
           LET source == df[out[k].index]
           IN  /\ IsNull(source.passenger_count) => out[k].passenger_count = 1
               /\ source.store_and_fwd_flag \notin {"Y", "N"} =>
                     out[k].store_and_fwd_flag = "False"

\* the numeric columns of a transformed row
NumericColumns ==
    {"passenger_count", "RatecodeID", "PULocationID", "DOLocationID",
     "payment_type", "trip_distance", "fare_amount", "extra", "mta_tax",
     "tip_amount", "tolls_amount", "improvement_surcharge", "total_amount",
     "congestion_surcharge", "Airport_fee", "trip_duration_minutes",
     "pickup_hour", "pickup_day_of_week", "tip_percentage", "avg_speed_mph"}

\* C9: every numeric column of every row the transformer returns for
\* insertion holds a value.
C9_NoMissingNumber ==
    tpc = "returned" =>
        \A k \in 1..Len(out) :
           \A c \in NumericColumns \cap DOMAIN out[k] : ~IsNull(out[k][c])

\* C10: tip_percentage is 0 when the fare is not positive and avg_speed_mph
\* is 0 when the duration is not positive, and in every returned row both
\* are numbers from 0 to 100.
C10_DerivedFieldBounds ==
    tpc = "returned" =>
        LET rows == Converted(taxi_type, df)
        IN  /\ \A i \in 1..Len(df) :
                  /\ (~IsNull(rows[i].fare_amount) /\ rows[i].fare_amount <= 0)
                        => rows[i].tip_percentage = 0
                  /\ (~IsNull(rows[i].trip_duration_minutes)
                         /\ rows[i].trip_duration_minutes <= 0)
                        => rows[i].avg_speed_mph = 0
            /\ \A k \in 1..Len(out) :
                  /\ out[k].tip_percentage \in 0..100
                  /\ out[k].avg_speed_mph \in 0..100

---------------------------------------------------------------------------
(* Properties of the counters of upload_file *)

\* C11: at every point of the batch loop the rows uploaded so far do not
\* exceed the rows processed so far, and the same holds of every record
\* upload_file returns: in a success record rows_uploaded <= rows_processed
\* and rows_filtered >= 0, and the rows_uploaded of an error record do not
\* exceed the rows read from its file.
C11_UploadedAtMostProcessed ==
    /\ 0 <= total_uploaded
    /\ total_uploaded <= total_processed
    /\ \A i \in 1..Len(results) :
          IF HasError(results[i])
             THEN /\ 0 <= results[i].rows_uploaded
                  /\ results[i].rows_uploaded <= yielded[FileOf(i)]
             ELSE /\ 0 <= results[i].rows_uploaded
                  /\ results[i].rows_uploaded <= results[i].rows_processed
                  /\ results[i].rows_filtered >= 0
                  /\ results[i].rows_filtered =
                        results[i].rows_processed - results[i].rows_uploaded

\* C11 witness: in the loop of a file some rows were uploaded and some
\* filtered out, after a file whose record shows both as well.
C11_Witness ==
    /\ pc = "upload"
    /\ upc = "read"
    /\ 0 < total_uploaded
    /\ total_uploaded < total_processed
    /\ \E i \in 1..Len(results) :
          /\ ~HasError(results[i])
          /\ 0 < results[i].rows_uploaded
          /\ 0 < results[i].rows_filtered

====
